---- MODULE Spec2Model ----
(***************************************************************************)
(* Model of server/api/session/session.controller.js: the REST controller  *)
(* of the Session resource.  Every handler is a promise pipeline: a        *)
(* datastore call followed by .then stages and a terminal .catch.  Each    *)
(* datastore settlement and each stage is one action, so the stages of     *)
(* concurrent requests interleave as the event loop allows.                *)
(***************************************************************************)
EXTENDS Integers, Sequences, FiniteSets, TLC

\* ------------------------------------------------------------------ bounds
MaxId == 1          \* primary keys the datastore can hold: 1..MaxId
MaxPatchLen == 2    \* longest JSON-Patch document a client sends
MaxRequests == 2    \* requests received in one behaviour

Ids == 1..MaxId
Reqs == {1, 2}      \* request slots: at most two requests in flight

\* -------------------------------------------------------------- JS values
\* A JavaScript value is a tagged record.  Str(0) is the empty string, the
\* other strings are the names "s1", "s2".
Undefined == [t |-> "undefined", v |-> 0]
Null == [t |-> "null", v |-> 0]
Bool(b) == [t |-> "boolean", v |-> IF b THEN 1 ELSE 0]
Num(n) == [t |-> "number", v |-> n]
Str(n) == [t |-> "string", v |-> n]
Obj(i, n) == [t |-> "object", id |-> i, name |-> n]
Arr(s) == [t |-> "array", items |-> s]
Err(k) == [t |-> "error", v |-> k]

DbError == Err(1)       \* a rejection of the persistence layer
TypeError == Err(2)     \* property access on null
PatchError == Err(3)    \* JsonPatchError thrown by jsonpatch.apply

\* a truth test under which an empty array is falsy
TruthyEmptyArrayFalsy(x) ==
  CASE x.t = "undefined" -> FALSE
    [] x.t = "null" -> FALSE
    [] x.t = "boolean" -> x.v = 1
    [] x.t = "number" -> x.v # 0
    [] x.t = "string" -> x.v # 0
    [] x.t = "array" -> x.items # <<>>
    [] OTHER -> TRUE

\* if(entity) / if(!entity) / statusCode || 200: JavaScript ToBoolean
Truthy(x) ==
  CASE x.t = "undefined" -> FALSE
    [] x.t = "null" -> FALSE
    [] x.t = "boolean" -> x.v = 1
    [] x.t = "number" -> x.v # 0
    [] x.t = "string" -> x.v # 0
    [] OTHER -> TRUE

\* ---------------------------------------------------------------- inputs
Names == {Str(1), Str(2)}
\* the id a client may put into a request body (Undefined: no id field):
\* none, the falsy 0 and "", and a key
BodyIds == {Undefined, Num(0), Str(0), Num(1)}
\* bodies of create: a new name, with or without an id chosen by the client
CreateBodies == {Obj(Undefined, n) : n \in Names} \cup {Obj(Num(MaxId), Str(2))}
\* bodies of upsert
UpsertBodies == {Obj(i, Str(2)) : i \in BodyIds}

\* JSON-Patch operations that apply to every Session ...
GoodOps ==
  { [op |-> "replace", path |-> "name", value |-> Str(2)],
    [op |-> "replace", path |-> "id", value |-> Num(MaxId + 1)] }

\* ... and operations that never do: an operation name the patch library
\* does not know (structurally invalid) and a path no Session has
\* (inapplicable)
BadOps ==
  { [op |-> "bogus", path |-> "name", value |-> Str(2)],
    [op |-> "replace", path |-> "nope", value |-> Str(2)] }

RECURSIVE SeqsUpTo(_, _)
SeqsUpTo(S, n) ==
  IF n = 0 THEN {<<>>}
  ELSE LET shorter == SeqsUpTo(S, n - 1)
       IN shorter \cup {Append(s, x) : s \in {q \in shorter : Len(q) = n - 1}, x \in S}

\* The patch documents clients send: operations that apply, possibly ended
\* by one that does not (the library stops at the first that throws, so
\* nothing after it matters).
PatchDocs ==
  {Arr(s) : s \in SeqsUpTo(GoodOps, MaxPatchLen)} \cup
  {Arr(Append(s, b)) : s \in SeqsUpTo(GoodOps, MaxPatchLen - 1), b \in BadOps}

Handlers == {"index", "show", "create", "upsert", "patch", "destroy"}

VARIABLES
  store,      \* the Sessions table: primary key -> name column, or NoRow
  pc,         \* per request: the stage of its pipeline that runs next
  req,        \* per request: handler, params.id and body
  val,        \* per request: the value (or error) the promise chain carries
  res,        \* per request: the response object
  calls,      \* per request: the datastore operations invoked so far
  resolved,   \* per request: what its first datastore call resolved with
  gone,       \* per request: show received after a 204 for its id, not re-created since
  destroyed,  \* ids a destroy has answered 204 for and nothing re-created
  rejectedAt, \* per request: number of calls made when a datastore call rejected, else 0
  nreq,       \* requests received so far
  prev,       \* the answer of the request that ended last, nothing else in flight since
  after,      \* per request: prev when it was received, or Concurrent
  free        \* whether the continuations of different requests interleave freely

vars == <<store, pc, req, val, res, calls, resolved, gone, destroyed, rejectedAt, nreq,
          prev, after, free>>

\* no row in the table; also: no datastore call has resolved yet
NoRow == [t |-> "norow", v |-> 0]

\* ------------------------------------------------------------ response
\* The response object of the HTTP framework: status() sets statusCode,
\* end() and json()/send() put the response on the wire once.
NewRes == [statusCode |-> 200, finished |-> FALSE, wireStatus |-> 0,
           wireBody |-> Undefined, hasBody |-> FALSE, writes |-> 0,
           threw |-> FALSE]

\* res.status(code).end()
ResEnd(r, code) ==
  IF r.finished
  THEN [r EXCEPT !.statusCode = code, !.writes = @ + 1]
  ELSE [r EXCEPT !.statusCode = code, !.finished = TRUE, !.wireStatus = code,
                 !.wireBody = Undefined, !.hasBody = FALSE, !.writes = @ + 1]

\* res.status(code).json(body) and res.status(code).send(body): once the
\* headers are sent, setting them again throws
ResSend(r, code, body) ==
  IF r.finished
  THEN [r EXCEPT !.statusCode = code, !.writes = @ + 1, !.threw = TRUE]
  ELSE [r EXCEPT !.statusCode = code, !.finished = TRUE, !.wireStatus = code,
                 !.wireBody = body, !.hasBody = TRUE, !.writes = @ + 1]

\* ------------------------------------------------------------ datastore
Entity(k) == Obj(Num(k), store[k])

\* Sessions.find({where: {id}}) resolves with the record or with null
FindResult(k) == IF store[k] = NoRow THEN Null ELSE Entity(k)

RECURSIVE Rows(_)
Rows(k) ==
  IF k > MaxId THEN <<>>
  ELSE IF store[k] = NoRow THEN Rows(k + 1)
       ELSE <<Entity(k)>> \o Rows(k + 1)

\* Sessions.findAll() resolves with the list of all records
FindAllResult == Arr(Rows(1))

Call(op, arg) == [op |-> op, arg |-> arg]

\* sent: the body as the client sent it; body: req.body as the handler left it
NewReq == [handler |-> "none", id |-> 1, sent |-> Undefined, body |-> Undefined]

\* no request has ended yet / r does not directly follow another request
NoPrev == [handler |-> "none", id |-> 0, status |-> 0, body |-> Undefined]

\* r has shared some of its time in flight with another request
Concurrent == [handler |-> "concurrent", id |-> 0, status |-> 0, body |-> Undefined]

\* one Session in the table, no request in flight
Start ==
  /\ store = [k \in Ids |-> IF k = 1 THEN Str(1) ELSE NoRow]
  /\ pc = [r \in Reqs |-> "idle"]
  /\ req = [r \in Reqs |-> NewReq]
  /\ val = [r \in Reqs |-> Undefined]
  /\ res = [r \in Reqs |-> NewRes]
  /\ calls = [r \in Reqs |-> <<>>]
  /\ resolved = [r \in Reqs |-> NoRow]
  /\ gone = [r \in Reqs |-> FALSE]
  /\ destroyed = [k \in Ids |-> "no"]
  /\ rejectedAt = [r \in Reqs |-> 0]
  /\ nreq = 0
  /\ prev = NoPrev
  /\ after = [r \in Reqs |-> NoPrev]

Init == Start /\ free = FALSE

\* the same controller, continuations interleaving freely
InitAny == Start /\ free = TRUE

\* ------------------------------------------------------ request arrival
\* The stages that run as continuations of a settled promise.  They run
\* as microtasks: the event loop delivers no further datastore result and
\* no further request before the chain has reached its next datastore call
\* or its end, and a pipeline that has ended is taken off its slot (Close).
Continuations ==
  {"handleEntityNotFound", "respondWithResult", "patchUpdates", "removeEntity",
   "removeEntityThen", "handleError", "done"}

\* Request r is at the given stage and it is its turn to run.
At(r, stage) ==
  /\ pc[r] = stage
  /\ free \/ \A q \in Reqs \ {r} : pc[q] \notin Continuations

\* no request but r is in flight
Alone(r) == \A q \in Reqs \ {r} : pc[q] = "idle"

\* A request reaches a handler through the first free slot, with a fresh
\* response.  With free interleaving each slot serves one request.
Receive(r, h, id, sent, body) ==
  /\ At(r, "idle")
  /\ \A q \in Reqs : q < r => pc[q] # "idle"
  /\ nreq < (IF free THEN Cardinality(Reqs) ELSE MaxRequests)
  /\ nreq' = nreq + 1
  /\ req' = [req EXCEPT ![r] = [handler |-> h, id |-> id, sent |-> sent, body |-> body]]
  /\ res' = [res EXCEPT ![r] = NewRes]
  /\ val' = [val EXCEPT ![r] = Undefined]
  /\ resolved' = [resolved EXCEPT ![r] = NoRow]
  /\ rejectedAt' = [rejectedAt EXCEPT ![r] = 0]
  /\ gone' = [gone EXCEPT ![r] = (h = "show" /\ destroyed[id] = "answered")]
  /\ after' = [q \in Reqs |->
                 IF q = r THEN (IF Alone(r) THEN prev ELSE Concurrent)
                 ELSE IF pc[q] = "idle" THEN NoPrev ELSE Concurrent]
  /\ prev' = NoPrev
  /\ UNCHANGED <<store, destroyed, free>>

\* if(req.body.id) { delete req.body.id; }
StripId(body) ==
  IF body.t = "object" /\ Truthy(body.id) THEN [body EXCEPT !.id = Undefined]
  ELSE body

\* ---------------------------------------------------------------- handlers
index(r) ==
  /\ Receive(r, "index", 1, Undefined, Undefined)
  /\ calls' = [calls EXCEPT ![r] = <<Call("findAll", Undefined)>>]
  /\ pc' = [pc EXCEPT ![r] = "findAll"]

show(r) ==
  \E id \in Ids :
    /\ Receive(r, "show", id, Undefined, Undefined)
    /\ calls' = [calls EXCEPT ![r] = <<Call("find", Num(id))>>]
    /\ pc' = [pc EXCEPT ![r] = "find"]

create(r) ==
  \E body \in CreateBodies :
    /\ Receive(r, "create", 1, body, body)
    /\ calls' = [calls EXCEPT ![r] = <<Call("create", body)>>]
    /\ pc' = [pc EXCEPT ![r] = "create"]

upsert(r) ==
  \E id \in Ids, body \in UpsertBodies :
    /\ Receive(r, "upsert", id, body, StripId(body))
    /\ calls' = [calls EXCEPT ![r] = <<Call("upsert", StripId(body))>>]
    /\ pc' = [pc EXCEPT ![r] = "upsert"]

patch(r) ==
  \E id \in Ids, body \in PatchDocs :
    /\ Receive(r, "patch", id, body, StripId(body))
    /\ calls' = [calls EXCEPT ![r] = <<Call("find", Num(id))>>]
    /\ pc' = [pc EXCEPT ![r] = "find"]

destroy(r) ==
  \E id \in Ids :
    /\ Receive(r, "destroy", id, Undefined, Undefined)
    /\ calls' = [calls EXCEPT ![r] = <<Call("find", Num(id))>>]
    /\ pc' = [pc EXCEPT ![r] = "find"]

\* ---------------------------------------------- datastore settlements
\* A datastore promise rejects: the chain skips to its .catch
Reject(r) ==
  /\ val' = [val EXCEPT ![r] = DbError]
  /\ rejectedAt' = [rejectedAt EXCEPT ![r] = Len(calls[r])]
  /\ pc' = [pc EXCEPT ![r] = "handleError"]

\* the row of key k is written by create or upsert: k exists again
Recreated(k) ==
  /\ destroyed' = [destroyed EXCEPT ![k] = "no"]
  /\ gone' = [r \in Reqs |-> gone[r] /\ req[r].id # k]

SessionsFindAll(r) ==
  /\ At(r, "findAll")
  /\ \/ /\ val' = [val EXCEPT ![r] = FindAllResult]
        /\ resolved' = [resolved EXCEPT ![r] = FindAllResult]
        /\ pc' = [pc EXCEPT ![r] = "respondWithResult"]
        /\ UNCHANGED rejectedAt
     \/ Reject(r) /\ UNCHANGED resolved
  /\ UNCHANGED <<store, req, res, calls, gone, destroyed, nreq, prev, after, free>>

SessionsFind(r) ==
  /\ At(r, "find")
  /\ \/ /\ val' = [val EXCEPT ![r] = FindResult(req[r].id)]
        /\ resolved' = [resolved EXCEPT ![r] = FindResult(req[r].id)]
        /\ pc' = [pc EXCEPT ![r] = "handleEntityNotFound"]
        /\ UNCHANGED rejectedAt
     \/ Reject(r) /\ UNCHANGED resolved
  /\ UNCHANGED <<store, req, res, calls, gone, destroyed, nreq, prev, after, free>>

\* keys a new row may get: the id of the data when it names a free key,
\* any free key when the data has no usable id, none when the key is taken
CreateKeys(data) ==
  IF data.id.t = "number" /\ data.id.v \in Ids
  THEN {k \in Ids : k = data.id.v /\ store[k] = NoRow}
  ELSE {k \in Ids : store[k] = NoRow}

SessionsCreate(r) ==
  /\ At(r, "create")
  /\ \/ \E k \in CreateKeys(req[r].body) :
          /\ store' = [store EXCEPT ![k] = req[r].body.name]
          /\ val' = [val EXCEPT ![r] = Obj(Num(k), req[r].body.name)]
          /\ resolved' = [resolved EXCEPT ![r] = Obj(Num(k), req[r].body.name)]
          /\ pc' = [pc EXCEPT ![r] = "respondWithResult"]
          /\ Recreated(k)
          /\ UNCHANGED rejectedAt
     \/ Reject(r) /\ UNCHANGED <<store, gone, destroyed, resolved>>
  /\ UNCHANGED <<req, res, calls, nreq, prev, after, free>>

\* what a datastore's upsert may resolve with: a created flag, an
\* affected-rows count, nothing, or the record
UpsertResults(k, data) ==
  {Bool(TRUE), Bool(FALSE), Num(0), Null, Undefined, Obj(Num(k), data.name)}

SessionsUpsert(r) ==
  /\ At(r, "upsert")
  /\ \/ \E result \in UpsertResults(req[r].id, req[r].body) :
          /\ store' = [store EXCEPT ![req[r].id] = req[r].body.name]
          /\ val' = [val EXCEPT ![r] = result]
          /\ resolved' = [resolved EXCEPT ![r] = result]
          /\ pc' = [pc EXCEPT ![r] = "respondWithResult"]
          /\ Recreated(req[r].id)
          /\ UNCHANGED rejectedAt
     \/ Reject(r) /\ UNCHANGED <<store, gone, destroyed, resolved>>
  /\ UNCHANGED <<req, res, calls, nreq, prev, after, free>>

\* entity.save(): updates the row the instance was loaded from, if it is
\* still there, and resolves with the instance
EntitySave(r) ==
  /\ At(r, "save")
  /\ \/ /\ store' = [store EXCEPT ![req[r].id] =
                       IF @ = NoRow THEN NoRow ELSE val[r].name]
        /\ pc' = [pc EXCEPT ![r] = "respondWithResult"]
        /\ UNCHANGED <<val, rejectedAt>>
     \/ Reject(r) /\ UNCHANGED store
  /\ UNCHANGED <<req, res, calls, resolved, gone, destroyed, nreq, prev, after, free>>

\* entity.destroy(): deletes the row
EntityDestroy(r) ==
  /\ At(r, "destroy")
  /\ \/ /\ store' = [store EXCEPT ![req[r].id] = NoRow]
        /\ destroyed' = [destroyed EXCEPT ![req[r].id] =
                               IF @ = "answered" THEN @ ELSE "deleted"]
        /\ pc' = [pc EXCEPT ![r] = "removeEntityThen"]
        /\ UNCHANGED <<val, rejectedAt>>
     \/ Reject(r) /\ UNCHANGED <<store, destroyed>>
  /\ UNCHANGED <<req, res, calls, resolved, gone, nreq, prev, after, free>>

\* -------------------------------------------------------- JSON-Patch
\* One operation applied in place with validation: replace and remove need
\* the path to resolve, add sets a member of the record, anything else is
\* refused.  ok = FALSE is a thrown JsonPatchError.
Resolves(e, path) == path \in {"id", "name"} /\ e[path] # Undefined

ApplyOp(e, o) ==
  CASE o.op = "add" /\ o.path \in {"id", "name"} ->
         [ok |-> TRUE, e |-> [e EXCEPT ![o.path] = o.value]]
    [] o.op = "replace" /\ Resolves(e, o.path) ->
         [ok |-> TRUE, e |-> [e EXCEPT ![o.path] = o.value]]
    [] o.op = "remove" /\ Resolves(e, o.path) ->
         [ok |-> TRUE, e |-> [e EXCEPT ![o.path] = Undefined]]
    [] OTHER -> [ok |-> FALSE, e |-> e]

\* jsonpatch.apply(entity, patches, true): the operations one after the
\* other on the same object, stopping at the first that throws
RECURSIVE JsonPatchApply(_, _)
JsonPatchApply(e, ops) ==
  IF ops = <<>> THEN [ok |-> TRUE, e |-> e]
  ELSE LET first == ApplyOp(e, Head(ops))
       IN IF first.ok THEN JsonPatchApply(first.e, Tail(ops)) ELSE first

\* ------------------------------------------------------------- stages
\* show without its .then(respondWithResult(res))
AfterNotFoundShowEnds(h) ==
  CASE h = "show" -> "done"
    [] h = "patch" -> "patchUpdates"
    [] h = "destroy" -> "removeEntity"

\* the stage after handleEntityNotFound in each pipeline
AfterNotFound(h) ==
  CASE h = "show" -> "respondWithResult"
    [] h = "patch" -> "patchUpdates"
    [] h = "destroy" -> "removeEntity"

\* handleEntityNotFound without its 404: the missing entity is passed on
handleEntityNotFoundSilent(r) ==
  /\ At(r, "handleEntityNotFound")
  /\ pc' = [pc EXCEPT ![r] = AfterNotFound(req[r].handler)]
  /\ UNCHANGED <<store, req, val, res, calls, resolved, gone, destroyed, rejectedAt, nreq, prev, after, free>>

handleEntityNotFound(r) ==
  /\ At(r, "handleEntityNotFound")
  /\ IF ~Truthy(val[r])
     THEN /\ res' = [res EXCEPT ![r] = ResEnd(@, 404)]
          /\ val' = [val EXCEPT ![r] = Null]
     ELSE UNCHANGED <<res, val>>
  /\ pc' = [pc EXCEPT ![r] = AfterNotFound(req[r].handler)]
  /\ UNCHANGED <<store, req, calls, resolved, gone, destroyed, rejectedAt, nreq, prev, after, free>>

\* create calling respondWithResult(res) like the other handlers
StatusCodeDefault(h) == 200

\* respondWithResult(res, 201) in create, respondWithResult(res) elsewhere
StatusCode(h) == IF h = "create" THEN 201 ELSE 200

respondWithResult(r) ==
  /\ At(r, "respondWithResult")
  /\ IF Truthy(val[r])
     THEN /\ res' = [res EXCEPT ![r] = ResSend(@, StatusCode(req[r].handler), val[r])]
          /\ UNCHANGED val
     ELSE /\ val' = [val EXCEPT ![r] = Null]
          /\ UNCHANGED res
  /\ pc' = [pc EXCEPT ![r] = "done"]
  /\ UNCHANGED <<store, req, calls, resolved, gone, destroyed, rejectedAt, nreq, prev, after, free>>

\* patchUpdates that saves whatever the library left, also after a throw
patchUpdatesSaveAnyway(r) ==
  /\ At(r, "patchUpdates")
  /\ IF val[r].t = "object"
     THEN LET applied == JsonPatchApply(val[r], req[r].body.items)
          IN /\ val' = [val EXCEPT ![r] = applied.e]
             /\ calls' = [calls EXCEPT ![r] = Append(@, Call("save", applied.e))]
             /\ pc' = [pc EXCEPT ![r] = "save"]
     ELSE /\ val' = [val EXCEPT ![r] = TypeError]
          /\ pc' = [pc EXCEPT ![r] = "handleError"]
          /\ UNCHANGED calls
  /\ UNCHANGED <<store, req, res, resolved, gone, destroyed, rejectedAt, nreq, prev, after, free>>

\* patchUpdates that returns the patched entity without saving it
patchUpdatesNoSave(r) ==
  /\ At(r, "patchUpdates")
  /\ IF val[r].t = "object"
     THEN LET applied == JsonPatchApply(val[r], req[r].body.items)
          IN IF applied.ok
             THEN /\ val' = [val EXCEPT ![r] = applied.e]
                  /\ pc' = [pc EXCEPT ![r] = "respondWithResult"]
             ELSE /\ val' = [val EXCEPT ![r] = PatchError]
                  /\ pc' = [pc EXCEPT ![r] = "handleError"]
     ELSE /\ val' = [val EXCEPT ![r] = TypeError]
          /\ pc' = [pc EXCEPT ![r] = "handleError"]
  /\ UNCHANGED <<store, req, res, calls, resolved, gone, destroyed, rejectedAt, nreq, prev, after, free>>

\* patchUpdates(req.body): on a record, apply the document and save; on
\* null the library or the call of save throws
patchUpdates(r) ==
  /\ At(r, "patchUpdates")
  /\ IF val[r].t = "object"
     THEN LET applied == JsonPatchApply(val[r], req[r].body.items)
          IN IF applied.ok
             THEN /\ val' = [val EXCEPT ![r] = applied.e]
                  /\ calls' = [calls EXCEPT ![r] = Append(@, Call("save", applied.e))]
                  /\ pc' = [pc EXCEPT ![r] = "save"]
             ELSE /\ val' = [val EXCEPT ![r] = PatchError]
                  /\ pc' = [pc EXCEPT ![r] = "handleError"]
                  /\ UNCHANGED calls
     ELSE /\ \E e \in IF req[r].body.items = <<>> THEN {TypeError}
                       ELSE {TypeError, PatchError} :
               val' = [val EXCEPT ![r] = e]
          /\ pc' = [pc EXCEPT ![r] = "handleError"]
          /\ UNCHANGED calls
  /\ UNCHANGED <<store, req, res, resolved, gone, destroyed, rejectedAt, nreq, prev, after, free>>

\* removeEntity that answers 204 without waiting for entity.destroy()
removeEntityEarly(r) ==
  /\ At(r, "removeEntity")
  /\ IF Truthy(val[r])
     THEN /\ calls' = [calls EXCEPT ![r] = Append(@, Call("destroy", val[r]))]
          /\ res' = [res EXCEPT ![r] = ResEnd(@, 204)]
          /\ pc' = [pc EXCEPT ![r] = "destroy"]
          /\ UNCHANGED val
     ELSE /\ val' = [val EXCEPT ![r] = Undefined]
          /\ pc' = [pc EXCEPT ![r] = "done"]
          /\ UNCHANGED <<calls, res>>
  /\ UNCHANGED <<store, req, resolved, gone, destroyed, rejectedAt, nreq, prev, after, free>>

\* removeEntity that answers without calling entity.destroy()
removeEntityNoDestroy(r) ==
  /\ At(r, "removeEntity")
  /\ IF Truthy(val[r])
     THEN /\ pc' = [pc EXCEPT ![r] = "removeEntityThen"]
          /\ UNCHANGED val
     ELSE /\ val' = [val EXCEPT ![r] = Undefined]
          /\ pc' = [pc EXCEPT ![r] = "done"]
  /\ UNCHANGED <<store, req, res, calls, resolved, gone, destroyed, rejectedAt, nreq, prev, after, free>>

removeEntity(r) ==
  /\ At(r, "removeEntity")
  /\ IF Truthy(val[r])
     THEN /\ calls' = [calls EXCEPT ![r] = Append(@, Call("destroy", val[r]))]
          /\ pc' = [pc EXCEPT ![r] = "destroy"]
          /\ UNCHANGED val
     ELSE /\ val' = [val EXCEPT ![r] = Undefined]
          /\ pc' = [pc EXCEPT ![r] = "done"]
          /\ UNCHANGED calls
  /\ UNCHANGED <<store, req, res, resolved, gone, destroyed, rejectedAt, nreq, prev, after, free>>

\* the continuation of entity.destroy(): res.status(204).end()
removeEntityThen(r) ==
  /\ At(r, "removeEntityThen")
  /\ res' = [res EXCEPT ![r] = ResEnd(@, 204)]
  /\ val' = [val EXCEPT ![r] = Undefined]
  /\ destroyed' = [destroyed EXCEPT ![req[r].id] =
                     IF @ = "deleted" THEN "answered" ELSE @]
  /\ pc' = [pc EXCEPT ![r] = "done"]
  /\ UNCHANGED <<store, req, calls, resolved, gone, rejectedAt, nreq, prev, after, free>>

\* handleError on a response object shared by all requests
handleErrorShared(r) ==
  /\ At(r, "handleError")
  /\ res' = [q \in Reqs |-> ResSend(res[q], 500, val[r])]
  /\ pc' = [pc EXCEPT ![r] = "done"]
  /\ UNCHANGED <<store, req, val, calls, resolved, gone, destroyed, rejectedAt, nreq, prev, after, free>>

\* handleError that ends the response without the error
handleErrorNoBody(r) ==
  /\ At(r, "handleError")
  /\ res' = [res EXCEPT ![r] = ResEnd(@, 500)]
  /\ pc' = [pc EXCEPT ![r] = "done"]
  /\ UNCHANGED <<store, req, val, calls, resolved, gone, destroyed, rejectedAt, nreq, prev, after, free>>

\* handleError(res): res.status(500).send(err)
handleError(r) ==
  /\ At(r, "handleError")
  /\ res' = [res EXCEPT ![r] = ResSend(@, 500, val[r])]
  /\ pc' = [pc EXCEPT ![r] = "done"]
  /\ UNCHANGED <<store, req, val, calls, resolved, gone, destroyed, rejectedAt, nreq, prev, after, free>>

\* what the client of r got, when it is a 201 for a created record, a 200
\* for a patched record or a 204 for a destroyed one
Summary(r) ==
  LET h == req[r].handler
      w == res[r]
  IN CASE h = "create" /\ w.finished /\ w.wireStatus = 201 /\ w.wireBody.t = "object" ->
            [handler |-> h, id |-> w.wireBody.id.v, status |-> 201, body |-> w.wireBody]
       [] h = "patch" /\ w.finished /\ w.wireStatus = 200 ->
            [handler |-> h, id |-> req[r].id, status |-> 200, body |-> w.wireBody]
       [] h = "destroy" /\ w.finished /\ w.wireStatus = 204 ->
            [handler |-> h, id |-> req[r].id, status |-> 204, body |-> Undefined]
       [] OTHER -> NoPrev

\* the pipeline of r has settled: its request and response are dropped
Close(r) ==
  /\ At(r, "done")
  /\ pc' = [pc EXCEPT ![r] = "idle"]
  /\ req' = [req EXCEPT ![r] = NewReq]
  /\ val' = [val EXCEPT ![r] = Undefined]
  /\ res' = [res EXCEPT ![r] = NewRes]
  /\ calls' = [calls EXCEPT ![r] = <<>>]
  /\ resolved' = [resolved EXCEPT ![r] = NoRow]
  /\ gone' = [gone EXCEPT ![r] = FALSE]
  /\ rejectedAt' = [rejectedAt EXCEPT ![r] = 0]
  /\ prev' = IF after[r] # Concurrent THEN Summary(r) ELSE NoPrev
  /\ after' = [after EXCEPT ![r] = NoPrev]
  /\ UNCHANGED <<store, destroyed, nreq, free>>

Next ==
  \E r \in Reqs :
    \/ index(r)
    \/ show(r)
    \/ create(r)
    \/ upsert(r)
    \/ patch(r)
    \/ destroy(r)
    \/ SessionsFindAll(r)
    \/ SessionsFind(r)
    \/ SessionsCreate(r)
    \/ SessionsUpsert(r)
    \/ EntitySave(r)
    \/ EntityDestroy(r)
    \/ handleEntityNotFound(r)
    \/ respondWithResult(r)
    \/ patchUpdates(r)
    \/ removeEntity(r)
    \/ removeEntityThen(r)
    \/ handleError(r)
    \/ Close(r)

Spec == Init /\ [][Next]_vars

\* two concurrent requests whose continuations interleave in every order
SpecAny == InitAny /\ [][Next]_vars

\* ----------------------------------------------------------- properties
Done(r, h) == pc[r] = "done" /\ req[r].handler = h

\* the arguments of the calls of datastore operation op that r has made
Invoked(r, op) == {calls[r][i].arg : i \in {j \in DOMAIN calls[r] : calls[r][j].op = op}}

NumInvoked(r, op) == Cardinality({j \in DOMAIN calls[r] : calls[r][j].op = op})

\* the client got this status and no body
Empty(r, status) ==
  /\ res[r].finished
  /\ res[r].wireStatus = status
  /\ ~res[r].hasBody
  /\ res[r].wireBody = Undefined

\* the client got this status and this body
Answered(r, status, body) ==
  /\ res[r].finished
  /\ res[r].wireStatus = status
  /\ res[r].hasBody
  /\ res[r].wireBody = body

\* C1: a patch whose find resolves with no record never invokes save, and
\* the response the client gets is 404 with an empty body, whatever the
\* patch document.
C1_PatchNotFound ==
  \A r \in Reqs :
    (req[r].handler = "patch" /\ resolved[r] = Null) =>
      /\ Invoked(r, "save") = {}
      /\ pc[r] = "done" => Empty(r, 404)

\* a patch with a non-empty document on a missing record has settled: 404
\* went out and the .catch that ran afterwards could not write
C1_Witness ==
  \E r \in Reqs :
    /\ Done(r, "patch") /\ resolved[r] = Null
    /\ req[r].body.items # <<>>
    /\ Empty(r, 404)
    /\ res[r].threw

\* C2 as stated: an upsert whose datastore call resolved answers 200 with
\* the resolved value as body, for every value it can resolve with.
C2_UpsertAnswersResolved ==
  \A r \in Reqs :
    (Done(r, "upsert") /\ rejectedAt[r] = 0) => Answered(r, 200, resolved[r])

\* C3 as stated: the data upsert hands to the datastore has no id field,
\* whatever id the client sent.
C3_UpsertDataHasNoId ==
  \A r \in Reqs :
    req[r].handler = "upsert" => \A data \in Invoked(r, "upsert") : data.id = Undefined

\* C4 as stated: the record a patch saves has the id of the record it
\* fetched, whatever the patch document.
C4_PatchKeepsId ==
  \A r \in Reqs :
    req[r].handler = "patch" =>
      \A saved \in Invoked(r, "save") : saved.id = resolved[r].id

\* the patch document of r does not apply to the record r fetched
FailsToApply(r) ==
  /\ req[r].handler = "patch"
  /\ resolved[r].t = "object"
  /\ ~JsonPatchApply(resolved[r], req[r].body.items).ok

\* C5: a patch on an existing record whose document fails to apply never
\* invokes save, is answered 500 with the patch error, and no step of its
\* pipeline changes the stored records.
C5_FailedPatch ==
  /\ [](\A r \in Reqs :
          FailsToApply(r) =>
            /\ Invoked(r, "save") = {}
            /\ pc[r] = "done" => Answered(r, 500, PatchError))
  /\ [][\A r \in Reqs : (FailsToApply(r) /\ pc'[r] # pc[r]) => store' = store]_vars

\* a document whose first operation was applied in memory and whose
\* second threw has been answered 500, the stored name still the old one
C5_Witness ==
  \E r \in Reqs :
    /\ FailsToApply(r) /\ pc[r] = "done"
    /\ Len(req[r].body.items) >= 2
    /\ req[r].body.items[1].path = "name"
    /\ resolved[r].name = Str(1)
    /\ store[req[r].id] = Str(1)
    /\ Answered(r, 500, PatchError)

\* C6: a destroy that finds the record deletes it and answers 204 with an
\* empty body; a show received after that 204, the id not re-created
\* since, is answered 404; a destroy that finds no record answers 404 and
\* never invokes the entity's destroy.  (Requests none of whose datastore
\* calls reject.)
C6_Destroy ==
  \A r \in Reqs :
    /\ (Done(r, "destroy") /\ resolved[r].t = "object" /\ rejectedAt[r] = 0) =>
         /\ Empty(r, 204)
         /\ Invoked(r, "destroy") = {resolved[r]}
    /\ (Done(r, "show") /\ gone[r] /\ rejectedAt[r] = 0) => Empty(r, 404)
    /\ (req[r].handler = "destroy" /\ resolved[r] = Null) =>
         /\ Invoked(r, "destroy") = {}
         /\ pc[r] = "done" => Empty(r, 404)

\* a show received after the 204 of a destroy has been answered 404
C6_Witness ==
  \E r \in Reqs :
    /\ Done(r, "show") /\ gone[r]
    /\ destroyed[req[r].id] = "answered"
    /\ store[req[r].id] = NoRow
    /\ Empty(r, 404)

\* C7: when a datastore call of a request rejects, the request makes no
\* further datastore call and is answered 500 with the error as body.
C7_Rejection ==
  \A r \in Reqs :
    rejectedAt[r] > 0 =>
      /\ Len(calls[r]) = rejectedAt[r]
      /\ pc[r] = "done" => Answered(r, 500, DbError)

\* the second datastore call of a pipeline (save or destroy) rejected and
\* 500 went out
C7_Witness ==
  \E r \in Reqs :
    /\ pc[r] = "done" /\ rejectedAt[r] = 2
    /\ Answered(r, 500, DbError)

\* C8: a show whose find resolves with the record of its id is answered
\* 200 with that record; one whose find resolves with no record is
\* answered 404 with an empty body, by a single write.
C8_Show ==
  \A r \in Reqs :
    (Done(r, "show") /\ rejectedAt[r] = 0) =>
      IF resolved[r].t = "object"
      THEN /\ resolved[r].id = Num(req[r].id)
           /\ Answered(r, 200, resolved[r])
      ELSE /\ resolved[r] = Null
           /\ Empty(r, 404)
           /\ res[r].writes = 1

\* a show of a record that was renamed or created meanwhile got 200
C8_Witness ==
  \E r \in Reqs :
    /\ Done(r, "show")
    /\ resolved[r].t = "object" /\ resolved[r].name = Str(2)
    /\ Answered(r, 200, resolved[r])

Last(S) == CHOOSE i \in S : \A j \in S : j <= i

\* every field of out has the value of the last operation of ops on it,
\* and the value it has in e when no operation touches it
Reflects(e, ops, out) ==
  \A f \in {"id", "name"} :
    LET touching == {i \in DOMAIN ops : ops[i].path = f}
    IN out[f] = IF touching = {} THEN e[f] ELSE ops[Last(touching)].value

\* the patch document of r applies to the record r fetched, and
\* patchUpdates has run
Patched(r) ==
  /\ req[r].handler = "patch"
  /\ resolved[r].t = "object"
  /\ JsonPatchApply(resolved[r], req[r].body.items).ok
  /\ pc[r] \in {"save", "respondWithResult", "handleError", "done"}

\* C9: a patch on an existing record whose document applies invokes save
\* exactly once, on a record that reflects every operation of the
\* document, and (save resolving) is answered 200 with that record.
C9_PatchApplied ==
  \A r \in Reqs :
    Patched(r) =>
      /\ NumInvoked(r, "save") = 1
      /\ \A saved \in Invoked(r, "save") :
           /\ Reflects(resolved[r], req[r].body.items, saved)
           /\ (pc[r] = "done" /\ rejectedAt[r] = 0) => Answered(r, 200, saved)

\* a patch of two operations was answered 200 with a changed record
C9_Witness ==
  \E r \in Reqs :
    /\ Patched(r) /\ pc[r] = "done" /\ rejectedAt[r] = 0
    /\ Len(req[r].body.items) >= 2
    /\ res[r].wireStatus = 200
    /\ res[r].wireBody.name # resolved[r].name

\* C10: an index whose findAll resolves is answered 200 with the list as
\* the datastore returned it, the empty list included.
C10_Index ==
  \A r \in Reqs :
    (Done(r, "index") /\ rejectedAt[r] = 0) => Answered(r, 200, resolved[r])

\* an index of an empty table was answered 200 with the empty list
C10_Witness ==
  \E r \in Reqs :
    /\ Done(r, "index")
    /\ resolved[r] = Arr(<<>>)
    /\ Answered(r, 200, Arr(<<>>))

\* C11: a create whose datastore call succeeds is answered 201 with the
\* created record, which has the name of the request body and the id the
\* datastore gave it.
C11_Create ==
  \A r \in Reqs :
    (Done(r, "create") /\ rejectedAt[r] = 0) =>
      /\ Answered(r, 201, resolved[r])
      /\ res[r].wireBody.t = "object"
      /\ res[r].wireBody.name = req[r].sent.name
      /\ res[r].wireBody.id \in {Num(k) : k \in Ids}
      /\ Invoked(r, "create") = {req[r].sent}

\* a create without an id in its body was answered 201 with a record that
\* has an id
C11_Witness ==
  \E r \in Reqs :
    /\ Done(r, "create") /\ rejectedAt[r] = 0
    /\ req[r].sent.id = Undefined
    /\ res[r].wireStatus = 201
    /\ res[r].wireBody.id # Undefined
    /\ store[res[r].wireBody.id.v] = req[r].sent.name

\* C12 as stated: of requests run one after another, a show that follows
\* the 201 of a create or the 200 of a patch of its id is answered 200 with
\* the record of that answer, and a show that follows the 204 of a destroy
\* of its id is answered 404.
C12_RoundTrip ==
  \A r \in Reqs :
    (Done(r, "show") /\ rejectedAt[r] = 0
       /\ after[r].handler \in {"create", "patch", "destroy"} /\ after[r].id = req[r].id) =>
      IF after[r].handler = "destroy" THEN Empty(r, 404)
      ELSE Answered(r, 200, after[r].body)

\* C13 as stated: no request has its response written to more than once.
C13_OneWrite ==
  \A r \in Reqs : res[r].writes <= 1

\* C14 as stated: a pipeline that has ended has written a response.
C14_Answered ==
  \A r \in Reqs : pc[r] = "done" => res[r].finished

\* the stages of patch and destroy up to the settlement of save or destroy
BeforeSettled ==
  {"find", "handleEntityNotFound", "patchUpdates", "removeEntity", "save", "destroy"}

\* C15: patch and destroy write 200 or 204 only once save or destroy has
\* been invoked and has resolved: not before it settles, and not at all
\* when a datastore call of the request rejects.
C15_SuccessAfterWrite ==
  \A r \in Reqs :
    req[r].handler \in {"patch", "destroy"} =>
      /\ pc[r] \in BeforeSettled => res[r].wireStatus \notin {200, 204}
      /\ rejectedAt[r] > 0 => res[r].wireStatus \notin {200, 204}
      /\ res[r].wireStatus = 200 => req[r].handler = "patch" /\ NumInvoked(r, "save") = 1
      /\ res[r].wireStatus = 204 => req[r].handler = "destroy" /\ NumInvoked(r, "destroy") = 1

\* the entity's destroy rejected: the row is still there and 500 went out
C15_Witness ==
  \E r \in Reqs :
    /\ Done(r, "destroy") /\ rejectedAt[r] = 2
    /\ store[req[r].id] # NoRow
    /\ Answered(r, 500, DbError)

\* what the controller holds of request r
Own(r) == <<pc[r], req[r], val[r], res[r], calls[r], resolved[r], rejectedAt[r]>>

\* C16: whatever the order in which the stages of two concurrent requests
\* run, a step of one request leaves the response, the request and the
\* chain of the other as they are, a request starts from a fresh response,
\* and two requests with the same input that got the same results from the
\* datastore and are at the same stage have the same response.
C16_Independent ==
  /\ [](\A r, q \in Reqs :
          (req[r] = req[q] /\ pc[r] = pc[q] /\ resolved[r] = resolved[q]
             /\ rejectedAt[r] = rejectedAt[q])
          => (res[r] = res[q] /\ calls[r] = calls[q]))
  /\ [][\A r \in Reqs :
          pc'[r] # pc[r] =>
            /\ \A q \in Reqs \ {r} : Own(q)' = Own(q)
            /\ pc[r] = "idle" => (res'[r] = NewRes /\ Len(calls'[r]) = 1)]_vars

\* a patch and a destroy of the same record, both past their find: the
\* destroy has been answered while the patch has not yet run patchUpdates
C16_Witness ==
  \E r, q \in Reqs :
    /\ req[r].handler = "destroy" /\ req[q].handler = "patch"
    /\ req[r].id = req[q].id
    /\ pc[r] = "done" /\ Empty(r, 204)
    /\ pc[q] = "patchUpdates" /\ resolved[q].t = "object"
    /\ ~res[q].finished

TypeOK ==
  /\ \A k \in Ids : store[k] \in Names \cup {Undefined, NoRow}
  /\ nreq \in 0..MaxRequests

====
